---- MODULE Spec2Model ----
(***************************************************************************)
(* Model of package godxmap (godxmap.go): the Server with its hub loop     *)
(* (Server.run), the producers calling Show*, the websocket connection     *)
(* handlers (serveConnection), Serve and Close.                            *)
(*                                                                         *)
(* Go channel semantics used throughout:                                   *)
(*   - a buffered channel is a FIFO of at most cap values; a send blocks   *)
(*     while the buffer is full and panics when the channel is closed      *)
(*     (also when the sender was already blocked at the time of close);    *)
(*   - a receive from a closed channel yields the buffered values first    *)
(*     and then (zero, false) forever;                                     *)
(*   - select picks any one of its ready cases.                            *)
(* A panic is modelled as the outcome of the call that raises it; whether  *)
(* the caller recovers is outside the package.                             *)
(***************************************************************************)
EXTENDS Naturals, Sequences, FiniteSets

\* ---------------------------------------------------------------- bounds
NumConns == 2
MaxFrames == 3

\* ------------------------------------------------------ program constants
InboundCap == 1
RegisterCap == 1

Conns == 1..NumConns
Calls == 1..MaxFrames
NoFrame == 0

VARIABLES
    inbound,        \* s.inbound: buffered frames, oldest first
    inboundClosed,  \* close(s.inbound) has been executed
    register,       \* s.register: buffered connections, oldest first
    closed,         \* s.closed has been closed (hub loop has returned)
    server,         \* s.server: "nil" or "set"
    addr,           \* s.addr: the address given to NewServer
    outbound,       \* the hub loop's local registry
    hubPc,          \* "select", "range", "write", "done"
    frame,          \* hub loop: the frame received in the current event
    active,         \* hub loop: the second result of <-s.inbound
    hubIdx,         \* hub loop: position of the range over outbound
    connPc,         \* per connection handler: "none", "register", "serve"
    connClosed,     \* per connection: c.closed has been closed
    callPc,         \* per Show* call: "none", "send", "returned", "panic"
    closePc,        \* "idle", "wait", "done", "panic"
    servePc,        \* "idle", "serving", "failed", "returned"
    nextId,         \* number of frames built so far (newFrame calls)
    clock,          \* time.Now().UnixMilli() as last read by newFrame;
                    \* followed in the runs that keep the DateTime values
    \* history of the run: written by the actions, read by no guard, only by
    \* the properties
    recording,      \* the kinds of history kept in this run: "frames"
                    \* (accepted, closeAt), "transmits" (transmitted),
                    \* "registrations" (regAt), "content" (built),
                    \* "attempts" (attempted, takenWith), "closing"
                    \* (the third component of takenWith), "stamps"
                    \* (stamp, inFlight, and the clock readings), "closes"
                    \* (closeCalls, fired)
    accepted,       \* frames in the order their inbound handoff completed
    transmitted,    \* per connection: frames handed to websocket.JSON.Send
    regAt,          \* per connection, recorded at its registration handoff:
                    \* <<nextId, Len(accepted), Close not yet invoked>>;
                    \* <<>> before the handoff
    closeAt,        \* <<nextId>> when Close was invoked, <<>> before it
    built,          \* the newest Show* call: <<k, its operation and
                    \* arguments, the frame it built>>; <<>> before it
    stamp,          \* per frame: its DateTime; <<>> before it is built
    inFlight,       \* per frame: the Show* calls that had built their
                    \* frame and not yet returned when it was built
    attempted,      \* per connection: the frames for which a Send went
                    \* past its check of c.closed
    closeCalls,     \* per connection: the number of c.Close() calls
    fired,          \* per connection: the number of times Close went on
                    \* to c.conn.Close() and close(c.closed)
    takenWith       \* per frame, recorded when the hub loop receives it:
                    \* <<the registry entries, those of them not closed,
                    \* Close already invoked>>; <<>> before that

vars == <<inbound, inboundClosed, register, closed, server, addr,
          outbound, hubPc, frame, active, hubIdx, connPc, connClosed,
          callPc, closePc, servePc, nextId, clock,
          recording, accepted, transmitted, regAt, closeAt, built,
          stamp, inFlight, attempted, takenWith, closeCalls, fired>>

hubVars == <<outbound, hubPc, frame, active, hubIdx>>
chanVars == <<inbound, inboundClosed, register>>
srvVars == <<server, addr, servePc>>
prodVars == <<callPc, nextId, clock>>
attemptHist == <<attempted, takenWith>>
showHist == <<built, stamp, inFlight>>
closeHist == <<closeCalls, fired>>
moreHist == <<showHist, attemptHist, closeHist>>
histVars == <<recording, accepted, transmitted, regAt, closeAt, moreHist>>

Range(s) == {s[i] : i \in 1..Len(s)}

\* the new value of a history variable of the given kind
Record(kind, old, new) == IF kind \in recording THEN new ELSE old

\* ------------------------------------------------------------- channels
\* a send that a closed channel would accept like an open one
SendOutcomeIgnoringClose(q, isClosed) ==
    IF Len(q) < InboundCap THEN "ok" ELSE "block"

\* outcome of `s.inbound <- f` (Server.send)
SendOutcome(q, isClosed) ==
    IF isClosed THEN "panic"
    ELSE IF Len(q) < InboundCap THEN "ok" ELSE "block"

\* a receive that sees the close before the buffered values
RecvSeesCloseEarly(q, isClosed) == isClosed

\* `frame, active := <-s.inbound` yields (zero, false): the channel is
\* closed and its buffer is drained
RecvSeesClose(q, isClosed) == isClosed /\ Len(q) = 0

\* ------------------------------------------------------- dxmapConnection
\* a Close that takes every connection down with c
CloseEveryConnection(cl, c) == [x \in Conns |-> TRUE]

\* a Close that is left out
CloseNothing(cl, c) == cl

\* a Close that does not look at c.closed
CloseAlwaysFires(cl, c) == TRUE

\* dxmapConnection.Close: the select takes `default` and goes on unless
\* c.closed is closed already
CloseFires(cl, c) == ~cl[c]

\* dxmapConnection.Close: closes c.closed unless it is closed already
ConnClose(cl, c) == IF CloseFires(cl, c) THEN [cl EXCEPT ![c] = TRUE] ELSE cl

\* `c.Close()` in the error branch of the hub loop
CloseOnError(cl, c) == ConnClose(cl, c)

\* `c.Close()` in the shutdown branch of the hub loop
CloseOnShutdown(cl, c) == ConnClose(cl, c)

\* a Send that does not look at c.closed
SendNeverNoOp(cl, c) == FALSE

\* dxmapConnection.Send: `case <-c.closed: return nil`
SendIsNoOp(cl, c) == cl[c]

\* a transport that delivers the newest frame first
WirePrepend(w, f) == <<f>> \o w

\* websocket.JSON.Send writes the frame to the connection
WireAppend(w, f) == Append(w, f)

\* --------------------------------------------------------------- frames
\* `result[key] = value` on a frame (map[string]any)
Put(m, key, value) ==
    [x \in DOMAIN m \cup {key} |-> IF x = key THEN value ELSE m[x]]

\* a newFrame whose DateTime runs against the clock
newFrameCountingDown(frameType, now, sourceAddr) ==
    [Frame |-> frameType, DateTime |-> MaxFrames - now,
     SourceAddr |-> sourceAddr]

\* Server.newFrame; now is the value of time.Now().UnixMilli()
newFrame(frameType, now, sourceAddr) ==
    [Frame |-> frameType, DateTime |-> now, SourceAddr |-> sourceAddr]

\* a Gab frame that carries the kind of a PartialCall frame
gabFrameAsPartialCall(from, to, message, now, sourceAddr) ==
    Put(Put(Put(newFrame("PartialCall", now, sourceAddr),
        "From", from), "To", to), "Message", message)

\* Server.loggedCallFrame
loggedCallFrame(call, frequencyKHz, now, sourceAddr) ==
    Put(Put(newFrame("LoggedCall", now, sourceAddr),
        "Call", call), "Frequency", frequencyKHz)

\* Server.partialCallFrame
partialCallFrame(call, now, sourceAddr) ==
    Put(newFrame("PartialCall", now, sourceAddr), "Call", call)

\* Server.dxSpotFrame
dxSpotFrame(spot, spotter, frequencyKHz, comments, now, sourceAddr) ==
    Put(Put(Put(Put(newFrame("DXSpot", now, sourceAddr),
        "Spot", spot), "Spotter", spotter), "Frequency", frequencyKHz),
        "Comments", comments)

\* Server.gabFrame
gabFrame(from, to, message, now, sourceAddr) ==
    Put(Put(Put(newFrame("Gab", now, sourceAddr),
        "From", from), "To", to), "Message", message)

\* the argument values the Show* calls of the model are made with
Callsigns == {"DL1ABC", "W1AW"}
Frequencies == {14250}
Texts == {"cq test"}

\* the Show* calls: the operation with its arguments
ShowInputs ==
    {[op |-> "ShowLoggedCall", call |-> c, frequencyKHz |-> f] :
        c \in Callsigns, f \in Frequencies}
    \cup {[op |-> "ShowPartialCall", call |-> c] : c \in Callsigns}
    \cup {[op |-> "ShowDXSpot", spot |-> c, spotter |-> d, frequencyKHz |-> f,
           comments |-> t] :
        c \in Callsigns, d \in Callsigns, f \in Frequencies, t \in Texts}
    \cup {[op |-> "ShowGab", from |-> c, to |-> d, message |-> t] :
        c \in Callsigns, d \in Callsigns, t \in Texts}

\* the frame the Show* call in hands to s.send
ShowFrame(in, now, sourceAddr) ==
    CASE in.op = "ShowLoggedCall" ->
            loggedCallFrame(in.call, in.frequencyKHz, now, sourceAddr)
      [] in.op = "ShowPartialCall" ->
            partialCallFrame(in.call, now, sourceAddr)
      [] in.op = "ShowDXSpot" ->
            dxSpotFrame(in.spot, in.spotter, in.frequencyKHz, in.comments,
                        now, sourceAddr)
      [] in.op = "ShowGab" ->
            gabFrame(in.from, in.to, in.message, now, sourceAddr)

\* the addresses NewServer is called with
DefaultAddr == ":12345"
Addrs == {DefaultAddr, "localhost:8073"}

\* The readings of the clock by the newFrame calls of a run. The clock does
\* not run backwards; the runs that keep the DateTime values take every
\* reading to be later than the one before, the case in which the order of
\* any two frames shows in their DateTime values (with equal readings fewer
\* pairs of frames differ, and the same frames are transmitted).
NextReading(t) == t + 1

\* ------------------------------------------------------------------ Init
\* the state when NewServer returns: channels made, `go result.run()`;
\* no Show* call, no connection, Serve and Close not called yet
Start ==
    /\ inbound = <<>>
    /\ inboundClosed = FALSE
    /\ register = <<>>
    /\ closed = FALSE
    /\ server = "nil"
    /\ outbound = <<>>
    /\ hubPc = "select"
    /\ frame = NoFrame
    /\ active = TRUE
    /\ hubIdx = 1
    /\ connPc = [c \in Conns |-> "none"]
    /\ connClosed = [c \in Conns |-> FALSE]
    /\ callPc = [k \in Calls |-> "none"]
    /\ closePc = "idle"
    /\ servePc = "idle"
    /\ nextId = 0
    /\ clock = 0
    /\ built = <<>>
    /\ closeCalls = [c \in Conns |-> 0]
    /\ fired = [c \in Conns |-> 0]
    /\ stamp = [k \in Calls |-> <<>>]
    /\ inFlight = [k \in Calls |-> {}]
    /\ attempted = [c \in Conns |-> <<>>]
    /\ takenWith = [k \in Calls |-> <<>>]
    /\ accepted = <<>>
    /\ transmitted = [c \in Conns |-> <<>>]
    /\ regAt = [c \in Conns |-> <<>>]
    /\ closeAt = <<>>

Init ==
    /\ Start
    /\ addr = DefaultAddr
    /\ recording = {"frames", "transmits", "registrations"}

\* the same state, for the runs that keep the history of the frames only
InitFrames ==
    Start /\ addr = DefaultAddr /\ recording = {"frames", "transmits"}

\* the same state, for the runs that keep no history
InitNoHistory == Start /\ addr = DefaultAddr /\ recording = {}

\* the same state, for the runs that keep the history of the Send calls and
\* of their order with Close
InitClosing ==
    Start /\ addr = DefaultAddr /\ recording = {"attempts", "closing"}

\* the same state, for the runs that keep the DateTime of every frame
InitStamps ==
    Start /\ addr = DefaultAddr /\ recording = {"transmits", "stamps"}

\* the same state, for the runs that count the Close calls
InitCloses == Start /\ addr = DefaultAddr /\ recording = {"closes"}

\* NewServer with any of the addresses, for the runs that keep the content
\* of the newest frame
InitContent == Start /\ addr \in Addrs /\ recording = {"content"}

\* the same state, for the runs that keep the history of the hub loop's
\* Send calls
InitAttempts ==
    Start /\ addr = DefaultAddr /\ recording = {"transmits", "attempts"}

\* ------------------------------------------------------------- producers
\* The k-th Show* call of the run, by whichever goroutine makes it: calls may
\* overlap (several producers) or follow one another. Its frame is
\* identified by k, the order of the newFrame calls.

\* the calls and clock readings that make a difference to the history kept
Drawn(kind, all, one) == IF kind \in recording THEN all ELSE {one}

\* Show*: build the frame (xxxFrame -> newFrame), then call s.send
ShowBegin(k) ==
    /\ callPc[k] = "none"
    /\ nextId = k - 1
    /\ nextId' = k
    /\ callPc' = [callPc EXCEPT ![k] = "send"]
    /\ \E now \in Drawn("stamps", {NextReading(clock)}, clock) :
       \E in \in Drawn("content", ShowInputs,
                        [op |-> "ShowPartialCall", call |-> "W1AW"]) :
          /\ clock' = now
          /\ built' = Record("content", built,
                             <<k, in, ShowFrame(in, now, addr)>>)
          /\ stamp' = Record("stamps", stamp, [stamp EXCEPT
                          ![k] = <<ShowFrame(in, now, addr).DateTime>>])
    /\ inFlight' = Record("stamps", inFlight, [inFlight EXCEPT
                       ![k] = {j \in Calls : callPc[j] = "send"}])
    /\ UNCHANGED <<chanVars, closed, srvVars, hubVars, connPc, connClosed,
                   closePc, recording, accepted, transmitted, regAt, closeAt,
                   attemptHist, closeHist>>

\* Server.send: `s.inbound <- f` completes and Show* returns
ShowSend(k) ==
    /\ callPc[k] = "send"
    /\ SendOutcome(inbound, inboundClosed) = "ok"
    /\ inbound' = Append(inbound, k)
    /\ accepted' = Record("frames", accepted, Append(accepted, k))
    /\ callPc' = [callPc EXCEPT ![k] = "returned"]
    /\ UNCHANGED <<inboundClosed, register, closed, srvVars, hubVars, connPc,
                   connClosed, closePc, nextId, clock, recording, transmitted,
                   regAt, closeAt, moreHist>>

\* Server.send: `s.inbound <- f` on the closed channel panics
ShowPanic(k) ==
    /\ callPc[k] = "send"
    /\ SendOutcome(inbound, inboundClosed) = "panic"
    /\ callPc' = [callPc EXCEPT ![k] = "panic"]
    /\ UNCHANGED <<chanVars, closed, srvVars, hubVars, connPc, connClosed,
                   closePc, nextId, clock, histVars>>

\* ----------------------------------------------------------- connections
\* the http server accepts a websocket connection and starts its handler:
\* serveConnection up to newDXMapConnection. Connections are numbered in the
\* order they are accepted.
Accept(c) ==
    /\ servePc = "serving"
    /\ connPc[c] = "none"
    /\ \A d \in Conns : d < c => connPc[d] # "none"
    /\ connPc' = [connPc EXCEPT ![c] = "register"]
    /\ UNCHANGED <<chanVars, closed, srvVars, hubVars, connClosed, prodVars,
                   closePc, histVars>>

\* serveConnection: `s.register <- c` completes, c.Serve() begins. The
\* handlers waiting to register are indistinguishable: the lowest-numbered
\* one goes first.
Register(c) ==
    /\ connPc[c] = "register"
    /\ \A d \in Conns : d < c => connPc[d] # "register"
    /\ Len(register) < RegisterCap
    /\ register' = Append(register, c)
    /\ connPc' = [connPc EXCEPT ![c] = "serve"]
    /\ regAt' = Record("registrations", regAt, [regAt EXCEPT
                   ![c] = <<nextId, Len(accepted), closePc = "idle">>])
    /\ UNCHANGED <<inbound, inboundClosed, closed, srvVars, hubVars,
                   connClosed, prodVars, closePc, recording, accepted,
                   transmitted, closeAt, moreHist>>

\* dxmapConnection.Serve, `<-c.closed`: the handler is blocked in it until
\* c.closed is closed, and has returned from it (and from serveConnection)
\* once it is
ServeBlocked(c) == connPc[c] = "serve" /\ ~connClosed[c]

ServeReturned(c) == connPc[c] = "serve" /\ connClosed[c]

\* -------------------------------------------------------------- hub loop
\* a range that stays on the same entry
RangeStay(i) == i

\* `for _, c := range outbound`: on to the next entry
RangeNext(i) == i + 1

\* The range over outbound moves on to position i of the event (f, a). Past
\* the last entry the event is over: `if !active { return }` with the
\* deferred close(s.closed), or else the next select.
Continue(i, f, a) ==
    IF i <= Len(outbound)
    THEN /\ hubPc' = "range"
         /\ hubIdx' = i
         /\ frame' = f
         /\ active' = a
         /\ closed' = closed
    ELSE /\ hubPc' = IF a THEN "select" ELSE "done"
         /\ hubIdx' = 1
         /\ frame' = NoFrame
         /\ active' = a
         /\ closed' = ~a

\* select: `case frame, active := <-s.inbound` with a buffered frame
HubRecvFrame ==
    /\ hubPc = "select"
    /\ Len(inbound) > 0
    /\ inbound' = Tail(inbound)
    /\ Continue(1, Head(inbound), TRUE)
    /\ takenWith' = Record("attempts", takenWith, [takenWith EXCEPT
                       ![Head(inbound)] = <<Range(outbound),
                           {c \in Range(outbound) : ~connClosed[c]},
                           Record("closing", FALSE, inboundClosed)>>])
    /\ UNCHANGED <<inboundClosed, register, srvVars, outbound, connPc,
                   connClosed, prodVars, closePc, recording, accepted,
                   transmitted, regAt, closeAt, showHist, attempted,
                   closeHist>>

\* select: `case frame, active := <-s.inbound` on the closed, drained channel
HubRecvClosed ==
    /\ hubPc = "select"
    /\ RecvSeesClose(inbound, inboundClosed)
    /\ Continue(1, NoFrame, FALSE)
    /\ UNCHANGED <<chanVars, srvVars, outbound, connPc, connClosed, prodVars,
                   closePc, histVars>>

\* select: `case c := <-s.register` appends to the registry
HubRecvRegister ==
    /\ hubPc = "select"
    /\ Len(register) > 0
    /\ outbound' = Append(outbound, Head(register))
    /\ register' = Tail(register)
    /\ UNCHANGED <<inbound, inboundClosed, closed, srvVars, hubPc, frame,
                   active, hubIdx, connPc, connClosed, prodVars, closePc,
                   histVars>>

\* range body, active: c.Send(frame) returns nil at once, c is closed
\* the hub loop calls c.Close()
CloseCalled(c) ==
    /\ closeCalls' = Record("closes", closeCalls,
                            [closeCalls EXCEPT ![c] = @ + 1])
    /\ fired' = Record("closes", fired, [fired EXCEPT
                    ![c] = IF CloseFires(connClosed, c) THEN @ + 1 ELSE @])

HubSendSkip ==
    /\ hubPc = "range" /\ active
    /\ SendIsNoOp(connClosed, outbound[hubIdx])
    /\ Continue(RangeNext(hubIdx), frame, TRUE)
    /\ UNCHANGED <<chanVars, srvVars, outbound, connPc, connClosed, prodVars,
                   closePc, histVars>>

\* range body, active: c.Send(frame), SetWriteDeadline fails, then c.Close()
HubSendDeadlineError ==
    /\ hubPc = "range" /\ active
    /\ ~SendIsNoOp(connClosed, outbound[hubIdx])
    /\ connClosed' = CloseOnError(connClosed, outbound[hubIdx])
    /\ attempted' = Record("attempts", attempted, [attempted EXCEPT
                       ![outbound[hubIdx]] = Append(@, frame)])
    /\ CloseCalled(outbound[hubIdx])
    /\ Continue(RangeNext(hubIdx), frame, TRUE)
    /\ UNCHANGED <<chanVars, srvVars, outbound, connPc, prodVars, closePc,
                   recording, accepted, transmitted, regAt, closeAt,
                   showHist, takenWith>>

\* range body, active: c.Send(frame) enters websocket.JSON.Send, which
\* returns when the transport has taken the frame, has failed, or the write
\* deadline has passed
HubSendWrite ==
    /\ hubPc = "range" /\ active
    /\ ~SendIsNoOp(connClosed, outbound[hubIdx])
    /\ transmitted' = Record("transmits", transmitted, [transmitted EXCEPT
                         ![outbound[hubIdx]] = WireAppend(@, frame)])
    /\ attempted' = Record("attempts", attempted, [attempted EXCEPT
                       ![outbound[hubIdx]] = Append(@, frame)])
    /\ hubPc' = "write"
    /\ UNCHANGED <<chanVars, closed, srvVars, outbound, frame, active, hubIdx,
                   connPc, connClosed, prodVars, closePc, recording, accepted,
                   regAt, closeAt, showHist, takenWith, closeHist>>

\* the transport of outbound[hubIdx] completes the write: Send returns nil
TransportOk ==
    /\ hubPc = "write"
    /\ Continue(RangeNext(hubIdx), frame, TRUE)
    /\ UNCHANGED <<chanVars, srvVars, outbound, connPc, connClosed, prodVars,
                   closePc, histVars>>

\* the transport of outbound[hubIdx] fails or runs into the write deadline:
\* Send returns the error, the hub loop calls c.Close()
TransportError ==
    /\ hubPc = "write"
    /\ connClosed' = CloseOnError(connClosed, outbound[hubIdx])
    /\ CloseCalled(outbound[hubIdx])
    /\ Continue(RangeNext(hubIdx), frame, TRUE)
    /\ UNCHANGED <<chanVars, srvVars, outbound, connPc, prodVars, closePc,
                   recording, accepted, transmitted, regAt, closeAt,
                   showHist, attemptHist>>

\* range body, not active: c.Close()
HubCloseConn ==
    /\ hubPc = "range" /\ ~active
    /\ connClosed' = CloseOnShutdown(connClosed, outbound[hubIdx])
    /\ CloseCalled(outbound[hubIdx])
    /\ Continue(RangeNext(hubIdx), frame, FALSE)
    /\ UNCHANGED <<chanVars, srvVars, outbound, connPc, prodVars, closePc,
                   recording, accepted, transmitted, regAt, closeAt,
                   showHist, attemptHist>>

Hub ==
    \/ HubRecvFrame \/ HubRecvClosed \/ HubRecvRegister
    \/ HubSendSkip \/ HubSendDeadlineError \/ HubSendWrite
    \/ HubCloseConn

Transport == TransportOk \/ TransportError

\* ----------------------------------------------------------- Serve, Close
\* Serve: net.Listen fails, Serve returns "cannot open listener"
ServeListenError ==
    /\ servePc = "idle"
    /\ servePc' = "failed"
    /\ UNCHANGED <<chanVars, closed, server, addr, hubVars, connPc,
                   connClosed, prodVars, closePc, histVars>>

\* Serve: net.Listen succeeds, s.server = &http.Server{...}, and
\* s.server.Serve(listener) accepts connections
ServeStart ==
    /\ servePc = "idle"
    /\ server' = "set"
    /\ servePc' = "serving"
    /\ UNCHANGED <<chanVars, closed, addr, hubVars, connPc, connClosed,
                   prodVars, closePc, histVars>>

\* Close: close(s.inbound)
CloseBegin ==
    /\ closePc = "idle"
    /\ inboundClosed' = TRUE
    /\ closeAt' = Record("frames", closeAt, <<nextId>>)
    /\ closePc' = "wait"
    /\ UNCHANGED <<inbound, register, closed, srvVars, hubVars, connPc,
                   connClosed, prodVars, recording, accepted, transmitted,
                   regAt, moreHist>>

\* The values of s.server that Close can read. Serve writes the field and
\* Close reads it with no lock: the write is ordered before the read only
\* through a connection handler started by the http server whose
\* registration the hub loop received; otherwise the read is a data race
\* and may see either value.
ServerSeenByClose ==
    IF server = "nil" THEN {"nil"}
    ELSE IF Len(outbound) > 0 THEN {"set"}
    ELSE {"nil", "set"}

\* Close: `<-s.closed` returns, then `return s.server.Close()` on a server:
\* the listener is closed and s.server.Serve returns ErrServerClosed
CloseServer ==
    /\ closePc = "wait"
    /\ closed
    /\ "set" \in ServerSeenByClose
    /\ servePc' = "returned"
    /\ closePc' = "done"
    /\ UNCHANGED <<chanVars, closed, server, addr, hubVars, connPc,
                   connClosed, prodVars, histVars>>

\* Close: `<-s.closed` returns, then `return s.server.Close()` on a nil
\* *http.Server panics
CloseServerNil ==
    /\ closePc = "wait"
    /\ closed
    /\ "nil" \in ServerSeenByClose
    /\ closePc' = "panic"
    /\ UNCHANGED <<chanVars, closed, srvVars, hubVars, connPc, connClosed,
                   prodVars, histVars>>

\* ------------------------------------------------------------------ Next
Next ==
    \/ \E k \in Calls : ShowBegin(k)
    \/ \E k \in Calls : ShowSend(k)
    \/ \E k \in Calls : ShowPanic(k)
    \/ \E c \in Conns : Accept(c)
    \/ \E c \in Conns : Register(c)
    \/ HubRecvFrame
    \/ HubRecvClosed
    \/ HubRecvRegister
    \/ HubSendSkip
    \/ HubSendDeadlineError
    \/ HubSendWrite
    \/ HubCloseConn
    \/ TransportOk
    \/ TransportError
    \/ ServeListenError
    \/ ServeStart
    \/ CloseBegin
    \/ CloseServer
    \/ CloseServerNil

Spec == Init /\ [][Next]_vars

\* The same runs, keeping the history of the frames only: for the
\* properties that do not read regAt.
FrameSpec == InitFrames /\ [][Next]_vars

\* The same runs, keeping the history of the Send calls.
AttemptSpec == InitAttempts /\ [][Next]_vars

\* The same runs, keeping the history of the Send calls and of their order
\* with Close.
ClosingSpec == InitClosing /\ [][Next]_vars

\* The same runs, keeping the DateTime of every frame, with the clock
\* advancing from one Show* call to the next.
StampSpec == InitStamps /\ [][Next]_vars

\* The same runs, counting the Close calls on every connection.
CloseSpec == InitCloses /\ [][Next]_vars

\* The same runs, keeping the content of the newest frame.
ContentSpec == InitContent /\ [][Next]_vars

\* The Go scheduler runs every runnable goroutine, and a write with a
\* deadline returns: the hub loop and the transport are never starved.
\* The liveness properties read the program's state only, so these runs keep
\* no history.
FairSpec ==
    /\ InitNoHistory
    /\ [][Next]_vars
    /\ WF_vars(Hub)
    /\ WF_vars(Transport)

\* A goroutine blocked in a channel send is woken when the buffer has room
\* (the runtime serves the waiting senders first come, first served): no
\* Show* call and no connection handler is starved of its handoff.
FairHandoffSpec ==
    /\ FairSpec
    /\ \A k \in Calls : WF_vars(ShowSend(k))
    /\ \A c \in Conns : WF_vars(Register(c))

\* ------------------------------------------------------------ properties
Registered(c) == regAt[c] # <<>>

\* the hub loop has taken f from s.inbound and finished its range for it
BroadcastDone(f) ==
    /\ f \in Range(accepted)
    /\ f \notin Range(inbound)
    /\ frame # f

Pos(f) == CHOOSE i \in 1..Len(accepted) : accepted[i] = f

\* C1: a frame whose inbound handoff completed before a subscriber's
\* registration handoff completed is never transmitted to that subscriber.
NoFrameFromBeforeRegistration ==
    \A c \in Conns :
        Registered(c) =>
            \A i \in 1..regAt[c][2] : accepted[i] \notin Range(transmitted[c])

\* C2: a frame whose Show* call began after a subscriber's registration
\* handoff completed has been transmitted to that subscriber once the hub
\* loop is through with the frame, unless the subscriber's transport failed
\* or Close was called.
FramesAfterRegistrationTransmitted ==
    \A c \in Conns : \A f \in 1..nextId :
        ( /\ Registered(c)
          /\ f > regAt[c][1]
          /\ BroadcastDone(f)
          /\ ~connClosed[c]
          /\ closePc = "idle" )
        => f \in Range(transmitted[c])

\* C3: the frames transmitted to a subscriber are a subsequence of the
\* frames in the order the inbound queue accepted them.
PerSubscriberOrder ==
    \A c \in Conns :
        /\ \A i \in 1..Len(transmitted[c]) :
               transmitted[c][i] \in Range(accepted)
        /\ \A i, j \in 1..Len(transmitted[c]) :
               i < j => Pos(transmitted[c][i]) < Pos(transmitted[c][j])

\* two overlapping Show* calls were accepted in the order opposite to the
\* one they were built in, and a subscriber was sent both
OrderWitness == \E c \in Conns : transmitted[c] = <<2, 1>>

\* a step of the hub loop or of the transport closes at most the registry
\* entry the range is at
ClosesOnlyCurrent ==
    \A c \in Conns :
        connClosed'[c] # connClosed[c]
        => hubPc \in {"range", "write"} /\ c = outbound[hubIdx]

\* when the range for a frame ends, every registry entry that is not closed
\* has been handed the frame
BroadcastReachedAll ==
    (hubPc \in {"range", "write"} /\ active /\ hubPc' = "select")
    => \A c \in Range(outbound) :
           ~connClosed'[c] => frame \in Range(transmitted'[c])

\* C4: a failed transmit closes only the subscriber it failed for; every
\* other registry entry that is not closed is handed the same frame, and
\* every later one, wherever the failing subscriber is in the registry.
FaultIsolation == [][ClosesOnlyCurrent /\ BroadcastReachedAll]_vars

\* the first registry entry was handed the current frame and closed for the
\* error; the second one is being sent the same frame
FaultIsolationWitness ==
    /\ hubPc = "write"
    /\ hubIdx = 2
    /\ connClosed[outbound[1]]
    /\ frame \in Range(transmitted[outbound[1]])
    /\ frame \in Range(transmitted[outbound[2]])

\* C5: the hub loop is never blocked in a transport write while another
\* open subscriber still has to be handed the same frame.
HubNeverWaitsOnTransport ==
    ~ ( /\ hubPc = "write"
        /\ \E i \in (hubIdx + 1)..Len(outbound) : ~connClosed[outbound[i]] )

\* C6: no Show* call ends in a panic.
ShowNeverPanics == \A k \in Calls : callPc[k] # "panic"

\* C7: no frame of a Show* call that began after Close was invoked is
\* transmitted to any subscriber.
NoDeliveryAfterClose ==
    closeAt # <<>> =>
        \A c \in Conns : \A i \in 1..Len(transmitted[c]) :
            transmitted[c][i] <= closeAt[1]

\* a Show* call began after Close, with a subscriber in the registry, and
\* has ended
AfterCloseWitness ==
    /\ closeAt # <<>>
    /\ Len(outbound) > 0
    /\ \E k \in Calls : k > closeAt[1] /\ callPc[k] = "panic"

\* C8: once the hub loop has exited, every connection whose registration
\* handoff completed before Close was invoked is closed.
ShutdownReachesRegistered ==
    hubPc = "done" =>
        \A c \in Conns : (Registered(c) /\ regAt[c][3]) => connClosed[c]

\* when Close is past its wait on s.closed, the hub loop has exited and
\* every connection of its registry is closed
ClosedBeforeCloseReturns ==
    closePc \in {"done", "panic"} =>
        /\ hubPc = "done"
        /\ \A c \in Range(outbound) : connClosed[c]

CloseNeverPanics == closePc # "panic"

\* the kind of frame and the kind-specific keys of the schema, per operation
KindOf(op) ==
    CASE op = "ShowLoggedCall" -> "LoggedCall"
      [] op = "ShowPartialCall" -> "PartialCall"
      [] op = "ShowDXSpot" -> "DXSpot"
      [] op = "ShowGab" -> "Gab"

ArgOf(key) ==
    CASE key = "Call" -> "call"
      [] key = "Frequency" -> "frequencyKHz"
      [] key = "Spot" -> "spot"
      [] key = "Spotter" -> "spotter"
      [] key = "Comments" -> "comments"
      [] key = "From" -> "from"
      [] key = "To" -> "to"
      [] key = "Message" -> "message"

KindKeys(kind) ==
    CASE kind = "LoggedCall" -> {"Call", "Frequency"}
      [] kind = "PartialCall" -> {"Call"}
      [] kind = "DXSpot" -> {"Spot", "Spotter", "Frequency", "Comments"}
      [] kind = "Gab" -> {"From", "To", "Message"}

\* the frame f is the one the schema prescribes for the call in
FrameMatches(in, f) ==
    /\ f.Frame = KindOf(in.op)
    /\ f.SourceAddr = addr
    /\ DOMAIN f \ {"Frame", "DateTime", "SourceAddr"} = KindKeys(f.Frame)
    /\ \A key \in KindKeys(f.Frame) : f[key] = in[ArgOf(key)]

\* a step that adds to inbound is the handoff of one Show* call, and adds
\* the one frame that call built
OneFramePerShow ==
    /\ \A k \in Calls :
          callPc[k] = "send" /\ callPc'[k] = "returned"
              => inbound' = Append(inbound, k)
    /\ Len(inbound') > Len(inbound) =>
          \E k \in Calls :
             /\ callPc[k] = "send" /\ callPc'[k] = "returned"
             /\ \A j \in Calls \ {k} : callPc'[j] = callPc[j]
    /\ \A k \in Calls : callPc[k] = "returned" => callPc'[k] = "returned"

\* C11: each Show operation submits exactly one frame; its Frame field is
\* the kind matching the operation, its SourceAddr is the address given to
\* NewServer, and its remaining keys are exactly the kind-specific fields of
\* the schema, carrying the call's arguments unchanged.
ShowSubmitsMatchingFrame ==
    /\ [](built # <<>> => FrameMatches(built[2], built[3]))
    /\ [][OneFramePerShow]_vars

\* a ShowGab call has handed its frame off, on a server with the second
\* address
ShowSubmitsWitness ==
    /\ built # <<>>
    /\ built[2].op = "ShowGab"
    /\ built[2].from # built[2].to
    /\ addr # DefaultAddr
    /\ callPc[built[1]] = "returned"

\* C12: once a subscriber is terminated, no frame is ever transmitted on its
\* transport again: it stays terminated, a Send to it changes nothing and
\* closes nothing, and the frame whose transmit failed is not transmitted a
\* second time.
NothingAfterTerminated ==
    [][\A c \in Conns : connClosed[c] =>
          /\ connClosed'[c]
          /\ transmitted'[c] = transmitted[c]
          /\ (hubPc = "range" /\ active /\ outbound[hubIdx] = c) =>
                connClosed' = connClosed /\ transmitted' = transmitted]_vars

\* frame 1 went to c; frames 2 and 3 were broadcast after it with c in the
\* registry and Close not called, and neither was transmitted to c: the Send
\* of frame 3 found c terminated
NothingAfterTerminatedWitness ==
    \E c \in Conns :
       /\ connClosed[c]
       /\ closePc = "idle"
       /\ accepted = <<1, 2, 3>>
       /\ transmitted[c] = <<1>>
       /\ BroadcastDone(3)

\* no frame occurs twice in w
NoRepeat(w) == \A i \in 1..Len(w) : \A j \in 1..Len(w) : w[i] = w[j] => i = j

\* the hub loop has received f
Taken(f) == takenWith[f] # <<>>

\* the hub loop's range for f has gone past the registry entry c
PastEntry(f, c) ==
    \/ frame # f
    \/ \E j \in 1..Len(outbound) :
          outbound[j] = c /\ (j < hubIdx \/ (j = hubIdx /\ hubPc = "write"))

\* C13: for every frame the hub loop takes from inbound it makes exactly one
\* transmit attempt for each registry entry that is not closed at that
\* instant and none for the closed ones (each connection registers once);
\* no frame is transmitted twice to the same subscriber.
OneAttemptPerOpenEntry ==
    \A c \in Conns :
       /\ NoRepeat(attempted[c])
       /\ NoRepeat(transmitted[c])
       /\ \A f \in Range(attempted[c]) : Taken(f) /\ c \in takenWith[f][2]
       /\ \A f \in Calls :
             (Taken(f) /\ c \in takenWith[f][2] /\ PastEntry(f, c))
                => f \in Range(attempted[c])

\* a frame was broadcast to a registry with a closed and an open entry
OneAttemptWitness ==
    \E f \in Calls :
       /\ Taken(f) /\ frame # f
       /\ takenWith[f][2] # {}
       /\ takenWith[f][1] # takenWith[f][2]
       /\ closePc = "idle"

\* C14: no connection handler blocks forever once shutdown has been
\* signalled. When the hub loop has returned, nothing receives from
\* s.register and nothing closes a c.closed any more, so a handler that is
\* then waiting in `s.register <- c` on the full buffer, or in c.Serve() on
\* an open c.closed, waits forever: the claim says there is no such handler.
NoHandlerStuckAfterShutdown ==
    hubPc = "done" =>
       \A c \in Conns :
          /\ ~ServeBlocked(c)
          /\ ~(connPc[c] = "register" /\ Len(register) >= RegisterCap)

\* C15: while Close has not been called the hub never deadlocks: under fair
\* scheduling, and with every transport write returning, every Show* call's
\* inbound handoff and every connection's registration handoff eventually
\* completes.
HandoffsComplete ==
    /\ \A k \in Calls :
          (callPc[k] = "send") ~> (callPc[k] = "returned" \/ closePc # "idle")
    /\ \A c \in Conns :
          (connPc[c] = "register") ~> (connPc[c] = "serve" \/ closePc # "idle")

\* every call and every connection got through its handoff, and Close has
\* not been called
HandoffsCompleteWitness ==
    /\ closePc = "idle"
    /\ \A k \in Calls : callPc[k] = "returned"
    /\ \A c \in Conns : connPc[c] = "serve"
    /\ Len(outbound) = NumConns

\* C16: a frame accepted into inbound is not lost by shutdown. A Show* call
\* returns only from a handoff made before Close was invoked; when the hub
\* loop has seen the closed channel (and goes on to close the subscribers
\* and to exit), it has taken the frame of every returned call and has made
\* its transmit attempt for every registry entry that was not closed then.
AcceptedFramesBroadcastBeforeExit ==
    ~active =>
       \A k \in Calls : callPc[k] = "returned" =>
          /\ Taken(k)
          /\ \A c \in takenWith[k][2] : k \in Range(attempted[c])

\* the hub loop has exited after it took, with Close already invoked, a
\* buffered frame and broadcast it to an open entry
AcceptedFramesWitness ==
    /\ hubPc = "done"
    /\ \E k \in Calls :
          /\ callPc[k] = "returned"
          /\ Taken(k)
          /\ takenWith[k][3]
          /\ \E c \in takenWith[k][2] : k \in Range(attempted[c])

\* the DateTime of the i-th frame transmitted to c
DateTimeAt(c, i) == stamp[transmitted[c][i]][1]

\* C17: the DateTime values of the frames transmitted to any one subscriber
\* are non-decreasing in transmit order, also when Show* is called from
\* several producers concurrently.
DateTimeNonDecreasing ==
    \A c \in Conns : \A j \in 1..Len(transmitted[c]) : \A i \in 1..(j - 1) :
       DateTimeAt(c, i) <= DateTimeAt(c, j)

\* C17, amended: the DateTime values of two frames transmitted to one
\* subscriber are in transmit order unless their Show* calls overlapped (the
\* later call built its frame before the earlier call returned).
DateTimeOrderedUnlessOverlapping ==
    \A c \in Conns : \A j \in 1..Len(transmitted[c]) : \A i \in 1..(j - 1) :
       DateTimeAt(c, i) > DateTimeAt(c, j)
          => transmitted[c][j] \in inFlight[transmitted[c][i]]

\* two calls that did not overlap, and both frames transmitted to one
\* subscriber, the DateTime values in transmit order
DateTimeOrderedWitness ==
    \E c \in Conns :
       /\ Len(transmitted[c]) = 2
       /\ DateTimeAt(c, 1) < DateTimeAt(c, 2)
       /\ transmitted[c][1] \notin inFlight[transmitted[c][2]]

\* a step that closes a connection is a step of the hub loop's range
OnlyHubCloses ==
    connClosed' # connClosed =>
       /\ hubPc \in {"range", "write"}
       /\ <<hubPc, hubIdx>>' # <<hubPc, hubIdx>>
       /\ \A c \in Conns :
             connClosed'[c] # connClosed[c] => c = outbound[hubIdx]

\* C18: for every connection the closed signal is fired, and the transport
\* closed, at most once, however often the hub loop calls Close on it; only
\* the hub loop executes dxmapConnection.Close.
ClosedAtMostOnce ==
    /\ [](\A c \in Conns :
            /\ fired[c] <= 1
            /\ connClosed[c] <=> fired[c] = 1
            /\ fired[c] <= closeCalls[c])
    /\ [][OnlyHubCloses]_vars

\* Close was called twice on a connection: after a failed send and again at
\* shutdown
ClosedAtMostOnceWitness ==
    \E c \in Conns : closeCalls[c] = 2 /\ fired[c] = 1 /\ hubPc = "done"

====
